---- MODULE Spec2Model ----
(***************************************************************************)
(* A model of the social-deduction simulation of src/omu_tui.py: the world *)
(* state of class Game, the tick loop (Game.loop), input handling, the     *)
(* per-tick update (task progress, NPC planning with A*, the two-phase     *)
(* movement arbiter, the impostor's kill, win/lose evaluation) and the     *)
(* meeting vote.                                                           *)
(*                                                                         *)
(* Cells are pairs <<y, x>>.  Python's None is the empty tuple.  Times are *)
(* integers in units of 1/400 s (tick_rate 1/16 s = 25 units).  The        *)
(* player is entity 0 and NPC i is entity i (its index in self.npcs).      *)
(***************************************************************************)
EXTENDS Integers, Sequences, FiniteSets, TLC

\* ----------------------------------------------------------------------
\* Bounds of the model (the program uses a 24 x 64 map, 6 bots, 8 tasks and
\* 50 progress steps per task).
\* ----------------------------------------------------------------------
Height == 5
Width == 5
BotCount == 3
TaskCount == 1
TaskSteps == 3
Epoch == 100
Horizon == 160
ReadLag == 1
RoomHeight == 5
RoomWidth == 6
MaxBlocked == 3

\* generate_map on a small grid: rooms of (MinRoomH + 1 .. MaxRoomH + 1) by
\* (MinRoomW + 1 .. MaxRoomW + 1) cells, at most MaxRooms of them
GenHeight == 10

GenWidth == 10

MinRoomW == 1

MaxRoomW == 2

MinRoomH == 1

MaxRoomH == 1

MaxRooms == 3

\* direct calls of choose_target: the tasks on the map
TargetTasks == 2

\* the long game: a LiveHeight x LiveWidth room with two tasks and three
\* bots, played for LiveHorizon time units; LiveSlack is ample time for an
\* NPC to be planned once
LiveHeight == 6

LiveWidth == 6

LiveHorizon == 300

LiveSlack == 100

\* ----------------------------------------------------------------------
\* Program constants, in model units.
\* ----------------------------------------------------------------------
TickRate == 25
BotMoveInterval == 48
RepathDelay == 100
KillCooldownTime == 2800
KillRange == 1
Inf == 1000000000

\* corridor_w
CorridorW == 3

None == <<>>

Grid(h, w) == (0 .. (h - 1)) \X (0 .. (w - 1))

Abs(n) == IF n < 0 THEN -n ELSE n

Manhattan(p, q) == Abs(p[1] - q[1]) + Abs(p[2] - q[2])

\* min() replaced by its second argument: no upper clamp
Min2Second(a, b) == b

Min2(a, b) == IF a < b THEN a ELSE b

Max2(a, b) == IF a > b THEN a ELSE b

Dirs == << <<-1, 0>>, <<1, 0>>, <<0, -1>>, <<0, 1>> >>

Step(p, d) == <<p[1] + d[1], p[2] + d[2]>>

\* row-major order of cells: the order of Python tuple comparison and of the
\* nested range() loops that fill self.tasks
CellLess(p, q) == p[1] < q[1] \/ (p[1] = q[1] /\ p[2] < q[2])

\* ----------------------------------------------------------------------
\* State of class Game
\* ----------------------------------------------------------------------
VARIABLES
  npc_hashable,           \* can an NPC be a dict key or set member (NPC.__hash__ is not None)?
  height,                 \* self.height
  width,                  \* self.width
  map,                    \* self.map: cell -> "#", "." or "T"
  tasks,                  \* self.tasks: task cell -> progress, in steps of task_progress_rate
  player,                 \* self.player: [y, x, alive]
  npcs,                   \* self.npcs: sequence of NPC records
  corpses,                \* self.corpses: sequence of [victim, y, x]
  clock,                  \* the last value read from time.time()
  last_update,            \* self.last_update
  running,                \* self.running
  meeting_mode,           \* self.meeting_mode
  meeting_selection_idx,  \* self.meeting_selection_idx
  meeting_candidates,     \* self.meeting_candidates: sequence of NPC indices
  in_task,                \* self.in_task
  task_target,            \* self.task_target
  pc,                     \* position in Game.loop: "input", "update", or "raised" once
                          \* an exception has left the loop
  outcomes,               \* the calls of game_over_screen so far: "crew" / "impostor"
  tick,                   \* locals of the last call of update / resolve_meeting_vote
  probe                   \* arguments and result of a direct call of astar_path

vars == <<npc_hashable, height, width, map, tasks, player, npcs, corpses, clock, last_update, running, meeting_mode,
          meeting_selection_idx, meeting_candidates, in_task, task_target, pc, outcomes, tick, probe>>

\* ----------------------------------------------------------------------
\* Grid queries
\* ----------------------------------------------------------------------
is_in_bounds(y, x) == 0 <= y /\ y < height /\ 0 <= x /\ x < width

is_walkable(m, y, x) == is_in_bounds(y, x) /\ m[<<y, x>>] # "#"

Walkable(m) == {c \in DOMAIN m : m[c] # "#"}

Degree(m, c) == Cardinality({k \in 1..4 : is_walkable(m, Step(c, Dirs[k])[1], Step(c, Dirs[k])[2])})

compute_intersections(m) ==
  {c \in DOMAIN m : /\ c[1] >= 1 /\ c[1] < height - 1
                    /\ c[2] >= 1 /\ c[2] < width - 1
                    /\ is_walkable(m, c[1], c[2])
                    /\ Degree(m, c) >= 3}

\* ----------------------------------------------------------------------
\* A* search (Game.astar_path).  The heap holds tuples (f, g, (y, x)); heapq
\* pops the least tuple in Python's lexicographic order.
\* ----------------------------------------------------------------------
\* the heap popping its greatest tuple
HeapMore(a, b) ==
  \/ a[1] > b[1]
  \/ a[1] = b[1] /\ a[2] > b[2]
  \/ a[1] = b[1] /\ a[2] = b[2] /\ CellLess(b[3], a[3])

HeapLess(a, b) ==
  \/ a[1] < b[1]
  \/ a[1] = b[1] /\ a[2] < b[2]
  \/ a[1] = b[1] /\ a[2] = b[2] /\ CellLess(a[3], b[3])

HeapMin(S) == CHOOSE a \in S : \A b \in S \ {a} : HeapLess(a, b)

Unset == <<-1>>

\* the neighbour loop skipping every blocked cell, the goal included
AstarRelaxGoalBlocked(m, goal, blocked, s, cur, g, k) ==
  LET nxt == Step(cur, Dirs[k])
      tg  == g + 1
  IN  IF ~is_walkable(m, nxt[1], nxt[2]) THEN s
      ELSE IF nxt \in blocked THEN s
      ELSE IF tg < s.g_score[nxt]
           THEN [s EXCEPT !.g_score[nxt] = tg,
                          !.came_from[nxt] = cur,
                          !.open_heap = @ \cup {<<tg + Manhattan(nxt, goal), tg, nxt>>}]
           ELSE s

\* the neighbour loop without its test "nxt in blocked and nxt != goal"
AstarRelaxThroughBlocked(m, goal, blocked, s, cur, g, k) ==
  LET nxt == Step(cur, Dirs[k])
      tg  == g + 1
  IN  IF ~is_walkable(m, nxt[1], nxt[2]) THEN s
      ELSE IF tg < s.g_score[nxt]
           THEN [s EXCEPT !.g_score[nxt] = tg,
                          !.came_from[nxt] = cur,
                          !.open_heap = @ \cup {<<tg + Manhattan(nxt, goal), tg, nxt>>}]
           ELSE s

\* one iteration of the neighbour loop, for direction Dirs[k]
AstarRelax(m, goal, blocked, s, cur, g, k) ==
  LET nxt == Step(cur, Dirs[k])
      tg  == g + 1
  IN  IF ~is_walkable(m, nxt[1], nxt[2]) THEN s
      ELSE IF nxt \in blocked /\ nxt # goal THEN s
      ELSE IF tg < s.g_score[nxt]
           THEN [s EXCEPT !.g_score[nxt] = tg,
                          !.came_from[nxt] = cur,
                          !.open_heap = @ \cup {<<tg + Manhattan(nxt, goal), tg, nxt>>}]
           ELSE s

AstarExpand(m, goal, blocked, s, cur, g) ==
  LET s1 == AstarRelax(m, goal, blocked, s, cur, g, 1)
      s2 == AstarRelax(m, goal, blocked, s1, cur, g, 2)
      s3 == AstarRelax(m, goal, blocked, s2, cur, g, 3)
  IN  AstarRelax(m, goal, blocked, s3, cur, g, 4)

RECURSIVE AstarLoop(_, _, _, _)
AstarLoop(m, goal, blocked, s) ==
  IF s.open_heap = {} THEN s
  ELSE LET top == HeapMin(s.open_heap)
           cur == top[3]
           s0  == [s EXCEPT !.open_heap = @ \ {top}]
       IN  IF cur \in s.closed THEN AstarLoop(m, goal, blocked, s0)
           ELSE LET s1 == [s0 EXCEPT !.closed = @ \cup {cur}]
                IN  IF cur = goal THEN s1
                    ELSE AstarLoop(m, goal, blocked, AstarExpand(m, goal, blocked, s1, cur, top[2]))

RECURSIVE Reconstruct(_, _, _)
Reconstruct(came_from, start, cur) ==
  IF cur = None \/ cur = start THEN <<>>
  ELSE Append(Reconstruct(came_from, start, came_from[cur]), cur)

astar_path(m, start, goal, blocked) ==
  IF start = goal THEN <<>>
  ELSE IF ~is_walkable(m, goal[1], goal[2]) THEN <<>>
  ELSE LET s0 == [open_heap |-> {<<Manhattan(start, goal), 0, start>>},
                  came_from |-> [c \in DOMAIN m |-> IF c = start THEN None ELSE Unset],
                  g_score   |-> [c \in DOMAIN m |-> IF c = start THEN 0 ELSE Inf],
                  closed    |-> {}]
           s  == AstarLoop(m, goal, blocked, s0)
       IN  IF s.came_from[goal] = Unset THEN <<>>
           ELSE Reconstruct(s.came_from, start, goal)

NpcIds == 1 .. Len(npcs)

Pos(e) == <<e.y, e.x>>

PlayerPos == Pos(player)

NewNPC(c) ==
  [y |-> c[1], x |-> c[2], alive |-> TRUE, role |-> "crewmate",
   last_move_time |-> 0, kill_cooldown |-> 0, assigned_task |-> None,
   patrol_target |-> None, current_target |-> None, current_path |-> <<>>,
   last_pos |-> None, repath_after |-> 0]

\* Game.find_entity_at / Game.entity_at: the player first, then the first
\* living NPC in roster order; 0 is the player, -1 is None
find_entity_at(ns, pl, pos) ==
  IF Pos(pl) = pos /\ pl.alive THEN 0
  ELSE IF \E i \in 1 .. Len(ns) : ns[i].alive /\ Pos(ns[i]) = pos
       THEN CHOOSE i \in 1 .. Len(ns) :
              /\ ns[i].alive /\ Pos(ns[i]) = pos
              /\ \A j \in 1 .. (i - 1) : ~(ns[j].alive /\ Pos(ns[j]) = pos)
       ELSE -1

\* near_corpse without the distance test: any corpse anywhere
near_corpse_anywhere(y, x) == corpses # <<>>

near_corpse(y, x) ==
  \E k \in 1 .. Len(corpses) : Abs(corpses[k].y - y) + Abs(corpses[k].x - x) <= 1

\* min() without its key: the first cell in dict order
FirstCell(S, p) == CHOOSE t \in S : \A u \in S \ {t} : CellLess(t, u)

\* min(cells, key = Manhattan distance to p): the first minimal cell in dict
\* order, which for self.tasks is row-major order
NearestCell(S, p) ==
  CHOOSE t \in S : \A u \in S \ {t} :
    \/ Manhattan(t, p) < Manhattan(u, p)
    \/ Manhattan(t, p) = Manhattan(u, p) /\ CellLess(t, u)

\* the candidates without "e.alive"
HuntCandidatesWithDead(i) ==
  {e \in 0 .. Len(npcs) : IF e = 0 THEN TRUE ELSE e # i /\ npcs[e].role # "impostor"}

\* the impostor's candidates: the player and the other NPCs, living and not
\* impostors, as entity ids in list order
HuntCandidates(i) ==
  {e \in 0 .. Len(npcs) :
     IF e = 0 THEN player.alive
     ELSE e # i /\ npcs[e].alive /\ npcs[e].role # "impostor"}

EntPos(ns, pl, e) == IF e = 0 THEN Pos(pl) ELSE Pos(ns[e])

NearestEntity(S, p) ==
  CHOOSE e \in S : \A u \in S \ {e} :
    \/ Manhattan(EntPos(npcs, player, e), p) < Manhattan(EntPos(npcs, player, u), p)
    \/ Manhattan(EntPos(npcs, player, e), p) = Manhattan(EntPos(npcs, player, u), p) /\ e < u

\* Game.choose_patrol_point: the cells random.choice can return
PatrolPoints ==
  IF compute_intersections(map) # {} THEN compute_intersections(map) ELSE Walkable(map)

\* does choose_target draw a patrol point for this NPC?
NeedsPatrolPoint(npc, ts) ==
  /\ npc.role # "impostor"
  /\ (npc.assigned_task = None \/ npc.assigned_task \notin DOMAIN ts)
  /\ DOMAIN ts = {}
  /\ (npc.patrol_target = None \/ Pos(npc) = npc.patrol_target)

\* Game.choose_target: [target, npc], the NPC with its assignment updated;
\* pp is the patrol point drawn when one is needed, ts is self.tasks
choose_target(npc, i, pp, ts) ==
  IF npc.role = "impostor"
  THEN [target |-> IF HuntCandidates(i) = {} THEN None
                   ELSE EntPos(npcs, player, NearestEntity(HuntCandidates(i), Pos(npc))),
        npc |-> npc]
  ELSE LET a1 == IF npc.assigned_task # None /\ npc.assigned_task \notin DOMAIN ts
                 THEN None ELSE npc.assigned_task
           a2 == IF a1 = None /\ DOMAIN ts # {}
                 THEN NearestCell(DOMAIN ts, Pos(npc)) ELSE a1
           p2 == IF a1 = None /\ DOMAIN ts = {}
                    /\ (npc.patrol_target = None \/ Pos(npc) = npc.patrol_target)
                 THEN pp ELSE npc.patrol_target
       IN  [target |-> IF a2 # None THEN a2 ELSE p2,
            npc |-> [npc EXCEPT !.assigned_task = a2, !.patrol_target = p2]]

\* occupied_before without "occupied_before.add(...)": no player's cell
OccupiedBeforeNoPlayer == {Pos(npcs[i]) : i \in {j \in NpcIds : npcs[j].alive}}

\* occupied_before: the cells of the living NPCs, and the player's cell
OccupiedBefore ==
  {Pos(npcs[i]) : i \in {j \in NpcIds : npcs[j].alive}} \cup {PlayerPos}

\* the re-path test without "if not npc.current_path": an NPC without a path
\* waits for its re-path deadline
NeedRepathWithPathOnly(npc, target, occ) ==
  IF npc.current_path = <<>> THEN FALSE
  ELSE LET step == npc.current_path[1]
       IN  IF ~is_walkable(map, step[1], step[2]) THEN TRUE
           ELSE step \in occ /\ step # target

\* the re-path test of the planning loop
NeedRepath(npc, target, occ) ==
  IF npc.current_path = <<>> THEN TRUE
  ELSE LET step == npc.current_path[1]
       IN  IF ~is_walkable(map, step[1], step[2]) THEN TRUE
           ELSE step \in occ /\ step # target

\* the anti-oscillation test left out
OscillatesNever(npc) == FALSE

\* the anti-oscillation test
Oscillates(npc) ==
  /\ npc.last_pos # None
  /\ npc.current_path[1] = npc.last_pos
  /\ Len(npc.current_path) = 1

\* the change of target without the reset: the path and the re-path
\* deadline stay
RetargetKeepsPath(npc, target) == [npc EXCEPT !.current_target = target]

\* "if target != npc.current_target": the new target is noted, the path
\* dropped and the re-path deadline reset
Retarget(npc, target) ==
  IF target # npc.current_target
  THEN [npc EXCEPT !.current_target = target, !.current_path = <<>>, !.repath_after = 0]
  ELSE npc

\* the body of the planning loop for NPC i: [npc, intent]; intent None means
\* the NPC has no entry in intents
Plan(i, now, pp, ts) ==
  LET npc == npcs[i]
  IN  IF ~npc.alive THEN [npc |-> npc, intent |-> None]
      ELSE IF now - npc.last_move_time < BotMoveInterval THEN [npc |-> npc, intent |-> None]
      ELSE
        LET n1 == [npc EXCEPT !.last_move_time = now,
                              !.kill_cooldown = IF npc.role = "impostor"
                                                THEN Max2(0, @ - (now - last_update)) ELSE @]
            ct == choose_target(n1, i, pp, ts)
            target == ct.target
            n2 == Retarget(ct.npc, target)
            n3 == IF target # None
                     /\ (NeedRepath(n2, target, OccupiedBefore) \/ now >= n2.repath_after)
                  THEN [n2 EXCEPT !.current_path =
                                    astar_path(map, Pos(n2), target, OccupiedBefore \ {target}),
                                  !.repath_after = now + RepathDelay]
                  ELSE n2
        IN  IF target # None /\ n3.current_path # <<>>
            THEN IF Oscillates(n3)
                 THEN [npc |-> [n3 EXCEPT !.repath_after = now], intent |-> Pos(n3)]
                 ELSE [npc |-> n3, intent |-> n3.current_path[1]]
            ELSE [npc |-> n3, intent |-> Pos(n3)]

PlanChoices(i, now, ts) ==
  IF npcs[i].alive /\ now - npcs[i].last_move_time >= BotMoveInterval /\ NeedsPatrolPoint(npcs[i], ts)
  THEN {Plan(i, now, pp, ts) : pp \in PatrolPoints}
  ELSE {Plan(i, now, None, ts)}

\* all outcomes of the planning loop, as sequences of [npc, intent]
RECURSIVE PlansFrom(_, _, _)
PlansFrom(i, now, ts) ==
  IF i > Len(npcs) THEN {<<>>}
  ELSE {<<p>> \o rest : p \in PlanChoices(i, now, ts), rest \in PlansFrom(i + 1, now, ts)}

\* ----------------------------------------------------------------------
\* Movement arbiter (phase 2 of Game.update).  ps is the planning outcome, a
\* sequence of [npc, intent]; an intents map is a sequence of cells or None.
\* ----------------------------------------------------------------------
RawIntents(ps) == [i \in 1 .. Len(ps) |-> ps[i].intent]

\* "Prevent moves onto player"
RedirectIntents(ps) ==
  [i \in 1 .. Len(ps) |->
     IF ps[i].intent # None /\ ps[i].intent = PlayerPos THEN Pos(ps[i].npc) ELSE ps[i].intent]

\* dest_map[pos]: the NPCs whose intent is pos
Claimants(intents, pos) == {i \in 1 .. Len(intents) : intents[i] = pos}

DestCells(intents) == {intents[i] : i \in {j \in 1 .. Len(intents) : intents[j] # None}}

staying_positions(intents) ==
  {Pos(npcs[i]) : i \in {j \in 1 .. Len(intents) : intents[j] = Pos(npcs[j])}}

\* the single-claimant branch without its head-on swap detection
SingleApprovedNoSwapCheck(intents, pos, n) ==
  ~(pos \in staying_positions(intents) /\ pos # Pos(npcs[n]))

\* is the only claimant n of pos approved?
SingleApproved(intents, pos, n) ==
  IF pos \in staying_positions(intents) /\ pos # Pos(npcs[n]) THEN FALSE
  ELSE LET occupant == find_entity_at(npcs, player, pos)
       IN  IF occupant >= 1
           THEN LET occ_intent == IF intents[occupant] # None THEN intents[occupant]
                                  ELSE Pos(npcs[occupant])
                IN  occ_intent # Pos(npcs[n])
           ELSE TRUE

SingleCells(intents) == {pos \in DestCells(intents) : Cardinality(Claimants(intents, pos)) = 1}

MultiCells(intents) == {pos \in DestCells(intents) : Cardinality(Claimants(intents, pos)) > 1}

\* the arbiter approving every claimant of a multiply claimed cell
ApprovedChoicesAll(intents) ==
  LET single == {n \in 1 .. Len(intents) :
                   /\ intents[n] # None
                   /\ intents[n] \in SingleCells(intents)
                   /\ SingleApproved(intents, intents[n], n)}
      multi  == {n \in 1 .. Len(intents) :
                   intents[n] # None /\ intents[n] \in MultiCells(intents)}
  IN  {single \cup multi}

\* the values the set approved can take: one claimant of each multiply
\* claimed cell is drawn by random.shuffle
ApprovedChoices(intents) ==
  LET single == {n \in 1 .. Len(intents) :
                   /\ intents[n] # None
                   /\ intents[n] \in SingleCells(intents)
                   /\ SingleApproved(intents, intents[n], n)}
      multi  == {n \in 1 .. Len(intents) :
                   intents[n] # None /\ intents[n] \in MultiCells(intents)}
  IN  {single \cup W : W \in {V \in SUBSET multi :
          \A pos \in MultiCells(intents) : Cardinality(V \cap Claimants(intents, pos)) = 1}}

\* the commit without "npc.current_path.pop(0)": the step taken stays at
\* the head of the path
CommitKeepsHead(ps, intents, approved) ==
  [i \in 1 .. Len(ps) |->
     LET npc == ps[i].npc
         desired == IF intents[i] # None THEN intents[i] ELSE Pos(npc)
     IN  IF npc.alive /\ i \in approved /\ desired # Pos(npc)
         THEN [npc EXCEPT !.last_pos = Pos(npc), !.y = desired[1], !.x = desired[2]]
         ELSE npc]

\* "Commit moves"
Commit(ps, intents, approved) ==
  [i \in 1 .. Len(ps) |->
     LET npc == ps[i].npc
         desired == IF intents[i] # None THEN intents[i] ELSE Pos(npc)
     IN  IF npc.alive /\ i \in approved /\ desired # Pos(npc)
         THEN [npc EXCEPT !.last_pos = Pos(npc),
                          !.y = desired[1], !.x = desired[2],
                          !.current_path = IF @ # <<>> /\ @[1] = desired THEN Tail(@) ELSE @]
         ELSE npc]

\* ----------------------------------------------------------------------
\* Impostor kills (phase 4).  w is [npcs, player, corpses].
\* ----------------------------------------------------------------------
\* the victims list without its distance test
VictimsAnywhere(w, i) ==
  {e \in 0 .. Len(w.npcs) :
     /\ e # i
     /\ IF e = 0 THEN w.player.alive ELSE w.npcs[e].alive /\ w.npcs[e].role # "impostor"}

Victims(w, i) ==
  {e \in 0 .. Len(w.npcs) :
     /\ e # i
     /\ IF e = 0 THEN w.player.alive ELSE w.npcs[e].alive /\ w.npcs[e].role # "impostor"
     /\ Manhattan(EntPos(w.npcs, w.player, e), Pos(w.npcs[i])) <= KillRange}

\* Game.kill_entity, followed by the cooldown reset of impostor i
kill_entity(w, e, i) ==
  LET pos == EntPos(w.npcs, w.player, e)
      ns  == IF e = 0 THEN w.npcs ELSE [w.npcs EXCEPT ![e].alive = FALSE]
  IN  [npcs    |-> [ns EXCEPT ![i].kill_cooldown = KillCooldownTime],
       player  |-> IF e = 0 THEN [w.player EXCEPT !.alive = FALSE] ELSE w.player,
       corpses |-> Append(w.corpses, [victim |-> e, y |-> pos[1], x |-> pos[2]])]

\* the outcomes of the kill loop from NPC i on
RECURSIVE KillLoop(_, _)
KillLoop(w, i) ==
  IF i > Len(w.npcs) THEN {w}
  ELSE IF ~w.npcs[i].alive \/ w.npcs[i].role # "impostor" THEN KillLoop(w, i + 1)
  ELSE IF w.npcs[i].kill_cooldown > 0 THEN KillLoop(w, i + 1)
  ELSE IF Victims(w, i) = {} THEN KillLoop(w, i + 1)
  ELSE UNION {KillLoop(kill_entity(w, vic, i), i + 1) : vic \in Victims(w, i)}

\* ----------------------------------------------------------------------
\* Win / lose evaluation: "impostor", "crew" or "none"
\* ----------------------------------------------------------------------
AliveCrew(ns, pl) ==
  (IF pl.alive THEN 1 ELSE 0)
  + Cardinality({i \in 1 .. Len(ns) : ns[i].alive /\ ns[i].role = "crewmate"})

AliveImpostors(ns) == Cardinality({i \in 1 .. Len(ns) : ns[i].alive /\ ns[i].role = "impostor"})

\* the win/lose checks without the comparison of impostors and crew
WinLoseNoParity(ns, pl, ts) ==
  IF ~pl.alive THEN "impostor"
  ELSE IF DOMAIN ts = {} THEN "crew"
  ELSE "none"

\* the win/lose checks without "len(self.tasks) == 0"
WinLoseNoTaskCheck(ns, pl, ts) ==
  IF ~pl.alive THEN "impostor"
  ELSE IF AliveImpostors(ns) >= AliveCrew(ns, pl) /\ AliveImpostors(ns) > 0 THEN "impostor"
  ELSE "none"

\* the win/lose checks with the first two tests exchanged: the registry is
\* looked at before the player
WinLoseTasksFirst(ns, pl, ts) ==
  IF DOMAIN ts = {} THEN "crew"
  ELSE IF ~pl.alive THEN "impostor"
  ELSE IF AliveImpostors(ns) >= AliveCrew(ns, pl) /\ AliveImpostors(ns) > 0 THEN "impostor"
  ELSE "none"

WinLose(ns, pl, ts) ==
  IF ~pl.alive THEN "impostor"
  ELSE IF DOMAIN ts = {} THEN "crew"
  ELSE IF AliveImpostors(ns) >= AliveCrew(ns, pl) /\ AliveImpostors(ns) > 0 THEN "impostor"
  ELSE "none"

\* ----------------------------------------------------------------------
\* Task progress (first part of Game.update): [tasks, in_task, task_target]
\* ----------------------------------------------------------------------
Restrict(f, S) == [c \in S |-> f[c]]

\* the task progress with "prog > 1.0" for "prog >= 1.0": a task that has
\* reached full progress stays in the registry for one more tick
TaskProgressLate ==
  IF ~in_task THEN [tasks |-> tasks, in_task |-> in_task, task_target |-> task_target]
  ELSE IF task_target = None \/ task_target \notin DOMAIN tasks \/ PlayerPos # task_target
       THEN [tasks |-> tasks, in_task |-> FALSE, task_target |-> None]
       ELSE IF tasks[task_target] + 1 > TaskSteps
            THEN [tasks |-> Restrict(tasks, DOMAIN tasks \ {task_target}),
                  in_task |-> FALSE, task_target |-> None]
            ELSE [tasks |-> [tasks EXCEPT ![task_target] = @ + 1],
                  in_task |-> in_task, task_target |-> task_target]

TaskProgress ==
  IF ~in_task THEN [tasks |-> tasks, in_task |-> in_task, task_target |-> task_target]
  ELSE IF task_target = None \/ task_target \notin DOMAIN tasks \/ PlayerPos # task_target
       THEN [tasks |-> tasks, in_task |-> FALSE, task_target |-> None]
       ELSE IF tasks[task_target] + 1 >= TaskSteps
            THEN [tasks |-> Restrict(tasks, DOMAIN tasks \ {task_target}),
                  in_task |-> FALSE, task_target |-> None]
            ELSE [tasks |-> [tasks EXCEPT ![task_target] = @ + 1],
                  in_task |-> in_task, task_target |-> task_target]

\* ----------------------------------------------------------------------
\* Game.update
\* ----------------------------------------------------------------------
NoVotes == [o \in {} |-> 0]

NoProbe == [called |-> FALSE, start |-> None, goal |-> None, blocked |-> {}, path |-> <<>>]

NoTick == [kind |-> "none", intents |-> <<>>, approved |-> {}, votes |-> NoVotes, choice |-> -1]

\* the NPCs the planning loop does not skip at time now
Eligible(now) == {i \in NpcIds : npcs[i].alive /\ now - npcs[i].last_move_time >= BotMoveInterval}

FirstEligible(now) == CHOOSE i \in Eligible(now) : \A j \in Eligible(now) : i <= j

\* "intents[npc] = desired" hashes the NPC.  Entity is a dataclass with eq and
\* without frozen, so its __hash__ is None, and NPC, declared with eq=False,
\* inherits it: the statement raises TypeError for the first NPC planned.
UpdateRaises ==
  LET tp  == TaskProgress
      now == clock + ReadLag
      i   == FirstEligible(now)
  IN  /\ ~npc_hashable
      /\ Eligible(now) # {}
      /\ \E p \in PlanChoices(i, now, tp.tasks) : npcs' = [npcs EXCEPT ![i] = p.npc]
      /\ tasks' = tp.tasks
      /\ in_task' = tp.in_task
      /\ task_target' = tp.task_target
      /\ clock' = now
      /\ pc' = "raised"
      /\ tick' = [NoTick EXCEPT !.kind = "raise"]
      /\ UNCHANGED <<player, corpses, last_update, running, outcomes,
                     meeting_mode, meeting_selection_idx, meeting_candidates>>

\* update without its first statement
NoMeetingGuard == FALSE

\* "if self.meeting_mode: return"
MeetingGuard == meeting_mode

Update ==
  /\ pc = "update"
  /\ UNCHANGED <<npc_hashable, height, width, map, probe>>
  /\ IF MeetingGuard
     THEN /\ tick' = NoTick
          /\ pc' = "input"
          /\ UNCHANGED <<tasks, player, npcs, corpses, clock, last_update, running,
                         meeting_mode, meeting_selection_idx, meeting_candidates,
                         in_task, task_target, outcomes>>
     ELSE IF ~npc_hashable /\ Eligible(clock + ReadLag) # {} THEN UpdateRaises
     ELSE LET tp  == TaskProgress
              now == clock + ReadLag
          IN  \E ps \in PlansFrom(1, now, tp.tasks) :
              \E approved \in ApprovedChoices(RedirectIntents(ps)) :
              \E w \in KillLoop([npcs    |-> Commit(ps, RedirectIntents(ps), approved),
                                 player  |-> player,
                                 corpses |-> corpses], 1) :
                LET res == WinLose(w.npcs, w.player, tp.tasks)
                IN  /\ pc' = "input"
                    /\ tasks' = tp.tasks
                    /\ in_task' = tp.in_task
                    /\ task_target' = tp.task_target
                    /\ clock' = now
                    /\ npcs' = w.npcs
                    /\ player' = w.player
                    /\ corpses' = w.corpses
                    /\ outcomes' = IF res = "none" THEN outcomes ELSE Append(outcomes, res)
                    /\ running' = IF res = "none" THEN running ELSE FALSE
                    /\ last_update' = IF res = "none" THEN now ELSE last_update
                    /\ tick' = [NoTick EXCEPT !.kind = "update",
                                               !.intents = RedirectIntents(ps),
                                               !.approved = approved]
                    /\ UNCHANGED <<meeting_mode, meeting_selection_idx, meeting_candidates>>

\* ----------------------------------------------------------------------
\* Meetings
\* ----------------------------------------------------------------------
Skip == 0

Shuffles(S) ==
  {q \in [1 .. Cardinality(S) -> S] : \A a, b \in 1 .. Cardinality(S) : a # b => q[a] # q[b]}

\* trigger_meeting without "if n.alive": every NPC of the roster is listed
trigger_meeting_all ==
  IF corpses = <<>>
  THEN UNCHANGED <<meeting_mode, meeting_candidates, meeting_selection_idx>>
  ELSE /\ meeting_mode' = TRUE
       /\ meeting_candidates' \in Shuffles(NpcIds)
       /\ meeting_selection_idx' = 0

\* Game.trigger_meeting
trigger_meeting ==
  IF corpses = <<>>
  THEN UNCHANGED <<meeting_mode, meeting_candidates, meeting_selection_idx>>
  ELSE /\ meeting_mode' = TRUE
       /\ meeting_candidates' \in Shuffles({i \in NpcIds : npcs[i].alive})
       /\ meeting_selection_idx' = 0

CandidateSet == {meeting_candidates[k] : k \in 1 .. Len(meeting_candidates)}

\* the ways k voters can spread their votes over the options: every weight is
\* positive, so each voter can draw each option
RECURSIVE Distributions(_, _)
Distributions(opts, k) ==
  IF opts = {} THEN (IF k = 0 THEN {[o \in {} |-> 0]} ELSE {})
  ELSE LET o == CHOOSE x \in opts : TRUE
       IN  UNION {{[x \in DOMAIN f \cup {o} |-> IF x = o THEN j ELSE f[x]] :
                     f \in Distributions(opts \ {o}, k - j)} : j \in 0 .. k}

\* the tally of the player's vote pv and the NPC votes d
Tally(pv, d) ==
  [o \in DOMAIN d \cup {pv} |->
     (IF o \in DOMAIN d THEN d[o] ELSE 0) + (IF pv = o THEN 1 ELSE 0)]

\* sorted() without the count in its key: any option that got a vote
TopChoicesAnyVoted(votes) == {o \in DOMAIN votes : votes[o] > 0}

\* the options sorted() can put first: the most voted ones
TopChoices(votes) ==
  {o \in DOMAIN votes : votes[o] > 0 /\ \A u \in DOMAIN votes : votes[u] <= votes[o]}

\* the ejection left out: every alive flag as it was
EjectNobody(ns, c) == ns

\* the ejection followed by a replacement: when an impostor is ejected the
\* first living crewmate of the roster takes the role
EjectAndReplace(ns, c) ==
  LET out  == [ns EXCEPT ![c].alive = FALSE]
      crew == {i \in DOMAIN ns : i # c /\ ns[i].alive /\ ns[i].role = "crewmate"}
  IN  IF ns[c].role = "impostor" /\ crew # {}
      THEN [out EXCEPT ![CHOOSE i \in crew : \A j \in crew : i <= j].role = "impostor"]
      ELSE out

\* choice.alive = False
Eject(ns, c) == [ns EXCEPT ![c].alive = FALSE]

player_vote_skip == meeting_selection_idx = Len(meeting_candidates)

\* voted_out with an empty list not read as Skip: the first NPC of the
\* roster stands in
voted_out_unguarded ==
  IF meeting_candidates = <<>> THEN 1
  ELSE IF player_vote_skip THEN Skip
  ELSE meeting_candidates[meeting_selection_idx + 1]

\* the option the player's vote is counted for
voted_out ==
  IF ~player_vote_skip /\ meeting_candidates # <<>>
  THEN meeting_candidates[meeting_selection_idx + 1] ELSE Skip

\* Game.resolve_meeting_vote
resolve_meeting_vote ==
  LET voters == {i \in NpcIds : npcs[i].alive}
  IN  \E d \in Distributions(CandidateSet \cup {Skip}, Cardinality(voters)) :
      \E choice \in TopChoices(Tally(voted_out, d)) :
        /\ tick' = [kind |-> "vote", intents |-> <<>>, approved |-> {},
                    votes |-> Tally(voted_out, d), choice |-> choice]
        /\ IF choice = Skip
           THEN /\ corpses' = <<>>
                /\ meeting_mode' = FALSE
                /\ UNCHANGED <<npcs, running, outcomes>>
           ELSE /\ npcs' = Eject(npcs, choice)
                /\ IF npcs[choice].role = "impostor"
                   THEN /\ outcomes' = Append(outcomes, "crew")
                        /\ running' = FALSE
                        /\ UNCHANGED <<corpses, meeting_mode>>
                   ELSE /\ corpses' = <<>>
                        /\ meeting_mode' = FALSE
                        /\ UNCHANGED <<running, outcomes>>
        /\ UNCHANGED <<meeting_candidates, meeting_selection_idx>>

\* no key cancels
NoCancelKeys == {}

\* ch in (ord('q'), ord('Q'), 27)
MeetingCancelKeys == {"q", "esc"}

\* Game.handle_meeting_input
handle_meeting_input(ch) ==
  /\ UNCHANGED <<player, in_task, task_target>>
  /\ IF ch \in {"KEY_UP", "k"}
     THEN /\ meeting_selection_idx' = Max2(0, meeting_selection_idx - 1)
          /\ tick' = NoTick
          /\ UNCHANGED <<npcs, corpses, running, meeting_mode, meeting_candidates, outcomes>>
     ELSE IF ch \in {"KEY_DOWN", "j"}
     THEN /\ meeting_selection_idx' = Min2(Len(meeting_candidates), meeting_selection_idx + 1)
          /\ tick' = NoTick
          /\ UNCHANGED <<npcs, corpses, running, meeting_mode, meeting_candidates, outcomes>>
     ELSE IF ch \in {"enter", "space"}
     THEN resolve_meeting_vote
     ELSE IF ch \in MeetingCancelKeys
     THEN /\ meeting_mode' = FALSE
          /\ corpses' = <<>>
          /\ tick' = NoTick
          /\ UNCHANGED <<npcs, running, meeting_candidates, meeting_selection_idx, outcomes>>
     ELSE /\ tick' = NoTick
          /\ UNCHANGED <<npcs, corpses, running, meeting_mode, meeting_candidates,
                         meeting_selection_idx, outcomes>>

\* ----------------------------------------------------------------------
\* Input
\* ----------------------------------------------------------------------
Keys == {"none", "KEY_UP", "KEY_DOWN", "KEY_LEFT", "KEY_RIGHT", "w", "s", "a", "d",
         "k", "j", "e", "r", "space", "q", "esc", "enter", "h"}

KeyDelta(ch) ==
  IF ch \in {"KEY_UP", "w"} THEN <<-1, 0>>
  ELSE IF ch \in {"KEY_DOWN", "s"} THEN <<1, 0>>
  ELSE IF ch \in {"KEY_LEFT", "a"} THEN <<0, -1>>
  ELSE IF ch \in {"KEY_RIGHT", "d"} THEN <<0, 1>>
  ELSE <<0, 0>>

\* Game.try_move_player
try_move_player(d) ==
  IF ~player.alive THEN UNCHANGED <<player, in_task, task_target>>
  ELSE LET n == Step(PlayerPos, d)
       IN  /\ in_task' = FALSE
           /\ task_target' = IF in_task THEN None ELSE task_target
           /\ player' = IF is_walkable(map, n[1], n[2]) /\ find_entity_at(npcs, player, n) = -1
                        THEN [player EXCEPT !.y = n[1], !.x = n[2]] ELSE player

\* Game.handle_input; show_help is display state and is left out, so "h"
\* changes nothing
handle_input(ch) ==
  IF ch = "none"
  THEN UNCHANGED <<player, npcs, corpses, running, meeting_mode, meeting_candidates,
                   meeting_selection_idx, in_task, task_target, outcomes, tick>>
  ELSE IF meeting_mode THEN handle_meeting_input(ch)
  ELSE
    /\ tick' = NoTick
    /\ UNCHANGED <<npcs, corpses, outcomes>>
    /\ IF ch = "h"
       THEN UNCHANGED <<player, running, meeting_mode, meeting_candidates,
                        meeting_selection_idx, in_task, task_target>>
       ELSE IF ch = "q"
       THEN /\ running' = FALSE
            /\ UNCHANGED <<player, meeting_mode, meeting_candidates,
                           meeting_selection_idx, in_task, task_target>>
       ELSE IF ch = "e"
       THEN /\ IF in_task THEN in_task' = FALSE /\ task_target' = None
               ELSE IF PlayerPos \in DOMAIN tasks
                    THEN in_task' = TRUE /\ task_target' = PlayerPos
                    ELSE UNCHANGED <<in_task, task_target>>
            /\ UNCHANGED <<player, running, meeting_mode, meeting_candidates,
                           meeting_selection_idx>>
       ELSE IF ch \in {"r", "space"}
       THEN /\ IF near_corpse(player.y, player.x) THEN trigger_meeting
               ELSE UNCHANGED <<meeting_mode, meeting_candidates, meeting_selection_idx>>
            /\ UNCHANGED <<player, running, in_task, task_target>>
       ELSE /\ IF KeyDelta(ch) # <<0, 0>> THEN try_move_player(KeyDelta(ch))
               ELSE UNCHANGED <<player, in_task, task_target>>
            /\ UNCHANGED <<running, meeting_mode, meeting_candidates, meeting_selection_idx>>

\* ----------------------------------------------------------------------
\* Game.loop: one iteration up to the call of update.  The sleep makes the
\* time since last_update at least tick_rate.
\* ----------------------------------------------------------------------
TickDts == {TickRate, 2 * TickRate}

\* one iteration with key ch, while the clock stays within limit
LoopIteration(ch, limit) ==
  /\ pc = "input"
  /\ running
  /\ \E dt \in TickDts :
       LET now == Max2(clock, last_update + dt)
       IN  /\ now + ReadLag <= limit
           /\ clock' = now
           /\ last_update' = now
  /\ handle_input(ch)
  /\ pc' = "update"
  /\ UNCHANGED <<npc_hashable, height, width, map, tasks, probe>>

LoopInput(ch) == LoopIteration(ch, Epoch + Horizon)

\* ----------------------------------------------------------------------
\* Game.__init__
\* ----------------------------------------------------------------------
\* one iteration of the neighbour loop of find_free_tile_near_center
CenterPush(b, c, k) ==
  LET n == Step(c, Dirs[k])
  IN  IF is_in_bounds(n[1], n[2]) /\ n \notin b.seen
      THEN [q |-> Append(b.q, n), seen |-> b.seen \cup {n}]
      ELSE b

RECURSIVE CenterSearch(_, _)
CenterSearch(m, b) ==
  IF b.q = <<>> THEN None
  ELSE LET c == Head(b.q)
       IN  IF is_walkable(m, c[1], c[2]) /\ m[c] # "T" THEN c
           ELSE CenterSearch(m,
                  CenterPush(CenterPush(CenterPush(CenterPush(
                    [q |-> Tail(b.q), seen |-> b.seen], c, 1), c, 2), c, 3), c, 4))

find_free_tile_near_center(m) ==
  LET c0 == <<height \div 2, width \div 2>>
      r  == CenterSearch(m, [q |-> <<c0>>, seen |-> {c0}])
  IN  IF r # None THEN r ELSE <<1, 1>>

FreeCells(m) == {c \in Walkable(m) : m[c] # "T"}

\* Game.spawn_points: the first n cells of a shuffle of the free cells
spawn_points(m, n) ==
  {st \in [1 .. n -> FreeCells(m)] : \A a, b \in 1 .. n : a # b => st[a] # st[b]}

\* the cells generate_map may turn into tasks: floor cells off the border margin
TaskCandidates(h, w, floor) ==
  {c \in floor : c[1] >= 2 /\ c[1] < h - 2 /\ c[2] >= 2 /\ c[2] < w - 2}

\* the subsets of S with k elements
RECURSIVE KSubsets(_, _)
KSubsets(S, k) ==
  IF k = 0 THEN {{}}
  ELSE IF S = {} THEN {}
  ELSE LET x == CHOOSE y \in S : TRUE
       IN  KSubsets(S \ {x}, k) \cup {T \cup {x} : T \in KSubsets(S \ {x}, k - 1)}

\* the h x w maps with the given floor: TaskCount cells of a shuffle of the
\* candidates become tasks (all of them when there are fewer)
MapsOf(h, w, floor) ==
  {[c \in Grid(h, w) |-> IF c \in T THEN "T" ELSE IF c \in floor THEN "." ELSE "#"] :
     T \in KSubsets(TaskCandidates(h, w, floor),
                    Min2(TaskCount, Cardinality(TaskCandidates(h, w, floor))))}

\* the state after Game.__init__ and the first lines of Game.loop, on map m,
\* with the bots at the cells st and bot imp the impostor
InitGame(h, w, m, st, imp) ==
  /\ height = h
  /\ width = w
  /\ map = m
  /\ tasks = [c \in {d \in DOMAIN m : m[d] = "T"} |-> 0]
  /\ player = [y |-> find_free_tile_near_center(m)[1],
               x |-> find_free_tile_near_center(m)[2], alive |-> TRUE]
  /\ st \in spawn_points(m, Len(st))
  /\ npcs = [i \in 1 .. Len(st) |-> [NewNPC(st[i]) EXCEPT !.role =
                                       IF i = imp THEN "impostor" ELSE "crewmate"]]
  /\ corpses = <<>>
  /\ clock = Epoch
  /\ last_update = Epoch
  /\ running = TRUE
  /\ meeting_mode = FALSE
  /\ meeting_selection_idx = 0
  /\ meeting_candidates = <<>>
  /\ in_task = FALSE
  /\ task_target = None
  /\ pc = "input"
  /\ outcomes = <<>>
  /\ tick = NoTick

\* a crossing of two corridors, along the middle row and the middle column
CrossFloor ==
  {c \in Grid(Height, Width) :
     /\ c[1] >= 1 /\ c[1] < Height - 1 /\ c[2] >= 1 /\ c[2] < Width - 1
     /\ (c[1] = Height \div 2 \/ c[2] = Width \div 2)}

InitCross ==
  \E m \in MapsOf(Height, Width, CrossFloor) :
  \E st \in [1 .. BotCount -> CrossFloor] : \E imp \in 1 .. BotCount :
    InitGame(Height, Width, m, st, imp)

\* a room: every cell inside the border wall is floor
RoomFloor ==
  {c \in Grid(RoomHeight, RoomWidth) :
     c[1] >= 1 /\ c[1] < RoomHeight - 1 /\ c[2] >= 1 /\ c[2] < RoomWidth - 1}

\* one outcome of the shuffle of spawn_points for five bots; the first bot
\* is the one drawn as impostor.  The room is started with these five bots, or
\* with any two bots, either of them the impostor.
RoomStart == << <<1, 2>>, <<3, 3>>, <<3, 1>>, <<1, 1>>, <<2, 1>> >>

InitRoom ==
  \E m \in MapsOf(RoomHeight, RoomWidth, RoomFloor) :
    \/ InitGame(RoomHeight, RoomWidth, m, RoomStart, 1)
    \/ \E st \in [1 .. 2 -> RoomFloor] : \E imp \in 1 .. 2 :
         InitGame(RoomHeight, RoomWidth, m, st, imp)

Next == (\E ch \in Keys : LoopInput(ch)) \/ Update

\* The program as shipped: hashing an NPC raises TypeError.
Init == npc_hashable = FALSE /\ InitCross /\ probe = NoProbe

Spec == Init /\ [][Next]_vars

\* The program with NPC hashable by identity, which is what the comment above
\* the NPC class says the declaration achieves.
InitHash == npc_hashable = TRUE /\ InitCross /\ probe = NoProbe

SpecHash == InitHash /\ [][Next]_vars

\* the room, with a player who only walks down, starts or stops a task, or
\* does nothing
RoomKeys == {"none", "KEY_DOWN", "e"}

NextRoom == (\E ch \in RoomKeys : LoopInput(ch)) \/ Update

InitHashRoom == npc_hashable = TRUE /\ InitRoom /\ probe = NoProbe

SpecHashRoom == InitHashRoom /\ [][NextRoom]_vars

\* ----------------------------------------------------------------------
\* The long game: a room with two tasks, diagonal neighbours, where the
\* player walks left, works on a task or waits.  The first bot is the
\* impostor and starts next to the second; the third starts in the right
\* column of the room.  The loop runs as long as the game does.
\* ----------------------------------------------------------------------
LiveFloor ==
  {c \in Grid(LiveHeight, LiveWidth) :
     c[1] >= 1 /\ c[1] < LiveHeight - 1 /\ c[2] >= 1 /\ c[2] < LiveWidth - 1}

\* one outcome of the task shuffle of generate_map on this floor
LiveTasks == {<<2, 2>>, <<3, 3>>}

LiveMap ==
  [c \in Grid(LiveHeight, LiveWidth) |->
     IF c \in LiveTasks THEN "T" ELSE IF c \in LiveFloor THEN "." ELSE "#"]

LiveStarts ==
  {st \in [1 .. 3 -> LiveFloor] :
     st[1] = <<1, 2>> /\ st[2] = <<1, 1>> /\ st[3][2] = LiveWidth - 2}

LiveKeys == {"none", "KEY_LEFT", "e"}

InitLive ==
  /\ npc_hashable = TRUE
  /\ probe = NoProbe
  /\ \E st \in LiveStarts : InitGame(LiveHeight, LiveWidth, LiveMap, st, 1)

NextLive == (\E ch \in LiveKeys : LoopIteration(ch, Epoch + LiveHorizon)) \/ Update

\* can the loop start an iteration before limit?
LoopEnabled(limit) ==
  /\ pc = "input"
  /\ running
  /\ \E dt \in TickDts : Max2(clock, last_update + dt) + ReadLag <= limit

\* The loop does not stop while the game runs: an iteration that can start
\* does start, and the update it calls returns.
SpecLive ==
  /\ InitLive
  /\ [][NextLive]_vars
  /\ WF_pc(LoopEnabled(Epoch + LiveHorizon) /\ pc' = "update")
  /\ WF_pc(pc = "update" /\ pc' = "input")

\* ----------------------------------------------------------------------
\* Game.generate_map
\* ----------------------------------------------------------------------
\* the rooms one attempt can draw: <<ry, rx, ry + rh, rx + rw>>
RoomDraws(h, w) ==
  {<<ry, rx, ry + rh, rx + rw>> :
     <<ry, rx, rh, rw>> \in
       {d \in (2 .. h) \X (2 .. w) \X (MinRoomH .. MaxRoomH) \X (MinRoomW .. MaxRoomW) :
          d[2] <= w - d[4] - 3 /\ d[1] <= h - d[3] - 3}}

overlaps(a, b) ==
  ~(a[3] + 2 < b[1] \/ b[3] + 2 < a[1] \/ a[4] + 2 < b[2] \/ b[4] + 2 < a[2])

\* the room lists the attempt loop can end with: the rooms drawn that
\* overlap no earlier one, in the order drawn, up to n of them
RECURSIVE RoomLists(_, _, _)
RoomLists(h, w, n) ==
  IF n = 0 THEN {<<>>}
  ELSE LET shorter == RoomLists(h, w, n - 1)
       IN  shorter \cup
           {Append(rs, r) : <<rs, r>> \in
              {p \in {q \in shorter : Len(q) = n - 1} \X RoomDraws(h, w) :
                 \A k \in 1 .. Len(p[1]) : ~overlaps(p[2], p[1][k])}}

carve_rect(h, w, r) ==
  {c \in Grid(h, w) :
     /\ c[1] >= Max2(1, r[1]) /\ c[1] < Min2(h - 1, r[3] + 1)
     /\ c[2] >= Max2(1, r[2]) /\ c[2] < Min2(w - 1, r[4] + 1)}

Center(r) == <<(r[1] + r[3]) \div 2, (r[2] + r[4]) \div 2>>

carve_horiz(h, w, y, x1, x2) ==
  {c \in Grid(h, w) :
     /\ c[2] >= Min2(x1, x2) /\ c[2] <= Max2(x1, x2)
     /\ c[1] - y >= -(CorridorW \div 2) /\ c[1] - y <= CorridorW \div 2
     /\ 1 <= c[1] /\ c[1] < h - 1 /\ 1 <= c[2] /\ c[2] < w - 1}

carve_vert(h, w, x, y1, y2) ==
  {c \in Grid(h, w) :
     /\ c[1] >= Min2(y1, y2) /\ c[1] <= Max2(y1, y2)
     /\ c[2] - x >= -(CorridorW \div 2) /\ c[2] - x <= CorridorW \div 2
     /\ 1 <= c[1] /\ c[1] < h - 1 /\ 1 <= c[2] /\ c[2] < w - 1}

\* the corridor with both legs starting at ci: the vertical leg along the
\* column of ci and the horizontal one along the row of ci, so that neither
\* ends at cj
CorridorsFromOneEnd(h, w, ci, cj) ==
  {carve_horiz(h, w, ci[1], ci[2], cj[2]) \cup carve_vert(h, w, ci[2], ci[1], cj[1])}

\* the two corridors from centre ci to centre cj: along the row of ci and
\* then the column of cj, or along the column of ci and then the row of cj
Corridors(h, w, ci, cj) ==
  {carve_horiz(h, w, ci[1], ci[2], cj[2]) \cup carve_vert(h, w, cj[2], ci[1], cj[1]),
   carve_vert(h, w, ci[2], ci[1], cj[1]) \cup carve_horiz(h, w, cj[1], ci[2], cj[2])}

\* the pairs <<i, j>> the search for best can end with: connected i and
\* remaining j at the least distance of centres (the first such pair in the
\* iteration order of the two sets)
BestPairs(rs, connected, remaining) ==
  {p \in connected \X remaining :
     \A q \in connected \X remaining :
       Manhattan(Center(rs[p[1]]), Center(rs[p[2]])) <=
         Manhattan(Center(rs[q[1]]), Center(rs[q[2]]))}

\* the floors the loop "while remaining" can end with
RECURSIVE ConnectRooms(_, _, _, _, _, _)
ConnectRooms(h, w, rs, connected, remaining, floor) ==
  IF remaining = {} THEN {floor}
  ELSE UNION {UNION {ConnectRooms(h, w, rs, connected \cup {p[2]}, remaining \ {p[2]},
                                  floor \cup cor) :
                       cor \in Corridors(h, w, Center(rs[p[1]]), Center(rs[p[2]]))} :
                p \in BestPairs(rs, connected, remaining)}

\* the floor carved for the room list rs
FloorsOf(h, w, rs) ==
  IF rs = <<>> THEN {{}}
  ELSE ConnectRooms(h, w, rs, {1}, 2 .. Len(rs),
                    UNION {carve_rect(h, w, rs[k]) : k \in 1 .. Len(rs)})

\* the first attempt always places its room, so the list is never empty
generate_map(h, w) ==
  UNION {UNION {MapsOf(h, w, floor) : floor \in FloorsOf(h, w, rs)} :
           rs \in RoomLists(h, w, MaxRooms) \ {<<>>}}

\* Game.__init__ up to the player's start, on a grid of GenHeight x GenWidth
InitConstruct ==
  /\ npc_hashable = TRUE
  /\ probe = NoProbe
  /\ height = GenHeight
  /\ width = GenWidth
  /\ map = [c \in Grid(GenHeight, GenWidth) |-> "#"]
  /\ tasks = [c \in {} |-> 0]
  /\ player = [y |-> 0, x |-> 0, alive |-> TRUE]
  /\ npcs = <<>>
  /\ corpses = <<>>
  /\ clock = Epoch
  /\ last_update = Epoch
  /\ running = TRUE
  /\ meeting_mode = FALSE
  /\ meeting_selection_idx = 0
  /\ meeting_candidates = <<>>
  /\ in_task = FALSE
  /\ task_target = None
  /\ pc = "construct"
  /\ outcomes = <<>>
  /\ tick = NoTick

Construct ==
  /\ pc = "construct"
  /\ map' \in generate_map(height, width)
  /\ tasks' = [c \in {d \in DOMAIN map' : map'[d] = "T"} |-> 0]
  /\ player' = [y |-> find_free_tile_near_center(map')[1],
                x |-> find_free_tile_near_center(map')[2], alive |-> TRUE]
  /\ pc' = "constructed"
  /\ UNCHANGED <<npc_hashable, height, width, npcs, corpses, clock, last_update, running,
                 meeting_mode, meeting_selection_idx, meeting_candidates, in_task,
                 task_target, outcomes, tick, probe>>

NextConstruct == Construct

SpecConstruct == InitConstruct /\ [][NextConstruct]_vars

\* ----------------------------------------------------------------------
\* Direct calls of choose_target, in the room with TargetTasks task cells
\* and two bots, one of them the impostor.  Either the entities stand
\* anywhere, alive or dead, with nothing assigned (the impostor's choice), or
\* they stand at fixed cells but for the first bot, with any part of the
\* tasks left in the registry and any assignment and patrol target of the
\* bots (the crewmate's choice).
\* ----------------------------------------------------------------------
TargetMaps ==
  {[c \in Grid(RoomHeight, RoomWidth) |->
      IF c \in T THEN "T" ELSE IF c \in RoomFloor THEN "." ELSE "#"] :
     T \in KSubsets(TaskCandidates(RoomHeight, RoomWidth, RoomFloor),
                    Min2(TargetTasks, Cardinality(TaskCandidates(RoomHeight, RoomWidth, RoomFloor))))}

InitTarget ==
  /\ npc_hashable = TRUE
  /\ probe = NoProbe
  /\ height = RoomHeight
  /\ width = RoomWidth
  /\ map \in TargetMaps
  /\ \E imp \in 1 .. 2 :
       \/ /\ tasks = [c \in {d \in DOMAIN map : map[d] = "T"} |-> 0]
          /\ \E pp \in RoomFloor : \E pa \in BOOLEAN : player = [y |-> pp[1], x |-> pp[2], alive |-> pa]
          /\ \E st \in [1 .. 2 -> RoomFloor] : \E al \in [1 .. 2 -> BOOLEAN] :
               npcs = [i \in 1 .. 2 |->
                         [NewNPC(st[i]) EXCEPT !.role = IF i = imp THEN "impostor" ELSE "crewmate",
                                               !.alive = al[i]]]
       \/ /\ \E reg \in SUBSET {d \in DOMAIN map : map[d] = "T"} : tasks = [c \in reg |-> 0]
          /\ player = [y |-> 1, x |-> 1, alive |-> TRUE]
          /\ \E s1 \in RoomFloor \ {<<1, 1>>, <<3, 4>>} :
             \E at \in [1 .. 2 -> {None} \cup {d \in DOMAIN map : map[d] = "T"}] :
             \E pt \in [1 .. 2 -> {None, <<3, 4>>, <<1, 3>>}] :
               npcs = [i \in 1 .. 2 |->
                         [NewNPC(IF i = 1 THEN s1 ELSE <<3, 4>>) EXCEPT
                            !.role = IF i = imp THEN "impostor" ELSE "crewmate",
                            !.assigned_task = at[i],
                            !.patrol_target = pt[i]]]
  /\ corpses = <<>>
  /\ clock = Epoch
  /\ last_update = Epoch
  /\ running = TRUE
  /\ meeting_mode = FALSE
  /\ meeting_selection_idx = 0
  /\ meeting_candidates = <<>>
  /\ in_task = FALSE
  /\ task_target = None
  /\ pc = "input"
  /\ outcomes = <<>>
  /\ tick = NoTick

\* choose_target(npcs[i]), its result kept in probe
TargetCall(i) ==
  /\ ~probe.called
  /\ npcs[i].alive
  /\ \E pp \in (IF NeedsPatrolPoint(npcs[i], tasks) THEN PatrolPoints ELSE {None}) :
       LET r == choose_target(npcs[i], i, pp, tasks)
       IN  /\ npcs' = [npcs EXCEPT ![i] = r.npc]
           /\ probe' = [called |-> TRUE, npc |-> i, target |-> r.target]
  /\ UNCHANGED <<npc_hashable, height, width, map, tasks, player, corpses, clock,
                 last_update, running, meeting_mode, meeting_selection_idx,
                 meeting_candidates, in_task, task_target, pc, outcomes, tick>>

NextTarget == \E i \in 1 .. 2 : TargetCall(i)

SpecTarget == InitTarget /\ [][NextTarget]_vars

\* ----------------------------------------------------------------------
\* Direct calls of resolve_meeting_vote, on a game in the state
\* trigger_meeting leaves: any set of bots dead, each with its corpse, the
\* candidates a shuffle of the living bots, the cursor anywhere in its range.
\* With every bot dead the candidate list is empty.
\* ----------------------------------------------------------------------
InitVote ==
  /\ npc_hashable = TRUE
  /\ probe = NoProbe
  /\ \E m \in MapsOf(Height, Width, CrossFloor) :
     \E st \in spawn_points(m, BotCount) : \E imp \in 1 .. BotCount :
     \E dead \in SUBSET (1 .. BotCount) :
     \E q \in Shuffles((1 .. BotCount) \ dead) : \E idx \in 0 .. Len(q) :
       /\ height = Height
       /\ width = Width
       /\ map = m
       /\ tasks = [c \in {d \in DOMAIN m : m[d] = "T"} |-> 0]
       /\ player = [y |-> find_free_tile_near_center(m)[1],
                    x |-> find_free_tile_near_center(m)[2], alive |-> TRUE]
       /\ npcs = [i \in 1 .. BotCount |->
                   [NewNPC(st[i]) EXCEPT !.role = IF i = imp THEN "impostor" ELSE "crewmate",
                                         !.alive = i \notin dead]]
       /\ corpses = [k \in 1 .. Cardinality(dead) |->
                      LET e == CHOOSE i \in dead : Cardinality({j \in dead : j < i}) = k - 1
                      IN  [victim |-> e, y |-> st[e][1], x |-> st[e][2]]]
       /\ meeting_mode = TRUE
       /\ meeting_candidates = q
       /\ meeting_selection_idx = idx
  /\ clock = Epoch
  /\ last_update = Epoch
  /\ running = TRUE
  /\ in_task = FALSE
  /\ task_target = None
  /\ pc = "input"
  /\ outcomes = <<>>
  /\ tick = NoTick

VoteCall ==
  /\ meeting_mode
  /\ tick.kind = "none"
  /\ resolve_meeting_vote
  /\ UNCHANGED <<npc_hashable, height, width, map, tasks, player, clock, last_update,
                 in_task, task_target, pc, probe>>

NextVote == VoteCall

SpecVote == InitVote /\ [][NextVote]_vars

\* ----------------------------------------------------------------------
\* Direct calls of astar_path, on a game without bots: start is a walkable
\* cell, goal any cell of the grid or a cell just off it, blocked a set of at
\* most MaxBlocked walkable cells.
\* ----------------------------------------------------------------------
SquareFloor ==
  {c \in Grid(Height, Width) :
     c[1] >= 1 /\ c[1] < Height - 1 /\ c[2] >= 1 /\ c[2] < Width - 1}

\* goals off the grid, one beyond each edge
OutsideCells(h, w) == {<<-1, 1>>, <<h, 1>>, <<1, -1>>, <<1, w>>}

\* the grids astar_path is called on, each with the greatest size nb of the
\* blocked set: the square room, the cross and the wider room, where two
\* cells can be five steps apart
AstarGrids ==
  {[h |-> Height, w |-> Width, floor |-> SquareFloor, nb |-> MaxBlocked],
   [h |-> Height, w |-> Width, floor |-> CrossFloor, nb |-> MaxBlocked],
   [h |-> RoomHeight, w |-> RoomWidth, floor |-> RoomFloor, nb |-> MaxBlocked - 1]}

FloorMap(h, w, floor) == [c \in Grid(h, w) |-> IF c \in floor THEN "." ELSE "#"]

InitAstar ==
  /\ npc_hashable = TRUE
  /\ \E gr \in AstarGrids :
       /\ InitGame(gr.h, gr.w, FloorMap(gr.h, gr.w, gr.floor), <<>>, 0)
       /\ \E start \in gr.floor : \E goal \in Grid(gr.h, gr.w) \cup OutsideCells(gr.h, gr.w) :
          \E blocked \in {B \in SUBSET gr.floor : Cardinality(B) <= gr.nb} :
            probe = [called |-> FALSE, start |-> start, goal |-> goal,
                     blocked |-> blocked, path |-> <<>>]

AstarCall ==
  /\ ~probe.called
  /\ probe.start # None
  /\ probe' = [probe EXCEPT !.called = TRUE,
                            !.path = astar_path(map, probe.start, probe.goal, probe.blocked)]
  /\ UNCHANGED <<npc_hashable, height, width, map, tasks, player, npcs, corpses, clock,
                 last_update, running, meeting_mode, meeting_selection_idx,
                 meeting_candidates, in_task, task_target, pc, outcomes, tick>>

NextAstar == AstarCall

SpecAstar == InitAstar /\ [][NextAstar]_vars

\* ----------------------------------------------------------------------
\* Properties of the movement arbiter
\* ----------------------------------------------------------------------
Living(ns) == {i \in 1 .. Len(ns) : ns[i].alive}

\* the living player and the living NPCs stand on pairwise distinct cells
DistinctCells(ns, pl) ==
  /\ \A a, b \in Living(ns) : a # b => Pos(ns[a]) # Pos(ns[b])
  /\ pl.alive => \A a \in Living(ns) : Pos(ns[a]) # Pos(pl)

UpdateStep == pc = "update" /\ pc' = "input" /\ tick'.kind = "update"

HeadOn(ns, intents, a, b) ==
  /\ a # b
  /\ Manhattan(Pos(ns[a]), Pos(ns[b])) = 1
  /\ intents[a] = Pos(ns[b])
  /\ intents[b] = Pos(ns[a])
  /\ Claimants(intents, Pos(ns[b])) = {a}
  /\ Claimants(intents, Pos(ns[a])) = {b}

LastStep ==
  /\ player.alive /\ in_task /\ task_target = PlayerPos
  /\ DOMAIN tasks = {PlayerPos}

C10_PathWellFormed ==
  (probe.called /\ probe.path # <<>>) =>
    LET p == probe.path
    IN  /\ \A k \in 1 .. Len(p) : p[k] # probe.start
        /\ Manhattan(probe.start, p[1]) = 1
        /\ \A k \in 1 .. (Len(p) - 1) : Manhattan(p[k], p[k + 1]) = 1
        /\ p[Len(p)] = probe.goal
        /\ \A k \in 1 .. Len(p) :
             /\ is_walkable(map, p[k][1], p[k][2])
             /\ (p[k] \in probe.blocked => p[k] = probe.goal)

\* astar_path has returned a path around blocked cells to a blocked goal
C10_Witness ==
  /\ probe.called
  /\ Len(probe.path) > Manhattan(probe.start, probe.goal)
  /\ probe.goal \in probe.blocked

\* ----------------------------------------------------------------------
\* Properties of astar_path
\* ----------------------------------------------------------------------
\* the cells one step from a cell of S that a route may enter: walkable and,
\* unless the goal, not blocked
RouteSteps(m, goal, blocked, S) ==
  {c \in DOMAIN m :
     /\ is_walkable(m, c[1], c[2])
     /\ (c \notin blocked \/ c = goal)
     /\ \E p \in S : Manhattan(p, c) = 1}

\* breadth-first distance from the cells of frontier, at distance d, to goal;
\* -1 when no route leads there
RECURSIVE BfsDistance(_, _, _, _, _, _)
BfsDistance(m, goal, blocked, frontier, seen, d) ==
  IF goal \in frontier THEN d
  ELSE IF frontier = {} THEN -1
  ELSE LET nxt == RouteSteps(m, goal, blocked, frontier) \ seen
       IN  BfsDistance(m, goal, blocked, nxt, seen \cup nxt, d + 1)

ProbeDistance ==
  IF probe.goal \notin DOMAIN map \/ ~is_walkable(map, probe.goal[1], probe.goal[2]) THEN -1
  ELSE BfsDistance(map, probe.goal, probe.blocked, {probe.start}, {probe.start}, 0)

\* C11: when goal is reachable from start the path astar_path returns is as
\* long as the breadth-first distance, and with nothing blocked on a floor
\* without inner walls as long as the Manhattan distance.
C11_PathShortest ==
  (probe.called /\ ProbeDistance >= 0) =>
    /\ Len(probe.path) = ProbeDistance
    /\ (probe.blocked = {} /\ Walkable(map) \in {SquareFloor, RoomFloor}) =>
          Len(probe.path) = Manhattan(probe.start, probe.goal)

\* two cells five apart with nothing blocked: the path has five cells
C11_Witness ==
  /\ probe.called
  /\ probe.blocked = {}
  /\ Manhattan(probe.start, probe.goal) = 5
  /\ Len(probe.path) = 5

\* C12: astar_path returns the empty path exactly when start is goal, or goal
\* is not walkable, or no route leads from start to goal; a walkable goal
\* that is blocked but otherwise reachable gets a non-empty path ending at it.
C12_EmptyPathCases ==
  probe.called =>
    /\ (probe.path = <<>>) <=> (probe.start = probe.goal \/ ProbeDistance < 0)
    /\ (probe.goal \in probe.blocked /\ probe.start # probe.goal /\ ProbeDistance >= 0) =>
          (probe.path # <<>> /\ probe.path[Len(probe.path)] = probe.goal)

\* a walkable goal away from start, cut off by blocked cells: the path is empty
C12_Witness ==
  /\ probe.called
  /\ probe.path = <<>>
  /\ probe.start # probe.goal
  /\ probe.goal \in DOMAIN map
  /\ is_walkable(map, probe.goal[1], probe.goal[2])
  /\ probe.blocked # {}
  /\ probe.goal \notin probe.blocked

\* ----------------------------------------------------------------------
\* Properties of the kill step and of the outcome of update
\* ----------------------------------------------------------------------
\* the entities (0 is the player) that this step takes from alive to not-alive
Died ==
  {e \in 0 .. Len(npcs) :
     IF e = 0 THEN player.alive /\ ~player'.alive
     ELSE npcs[e].alive /\ ~npcs'[e].alive}

\* the cooldown of NPC i when the kill step of this update begins: the
\* planning loop has reduced it if it planned i
CooldownAtKillStep(i) ==
  IF i \in Eligible(clock + ReadLag) /\ npcs[i].role = "impostor"
  THEN Max2(0, npcs[i].kill_cooldown - ((clock + ReadLag) - last_update))
  ELSE npcs[i].kill_cooldown

\* the living impostors that began the kill step with cooldown 0 and end the
\* update with the full cooldown
Killers ==
  {i \in 1 .. Len(npcs) :
     /\ npcs[i].alive /\ npcs'[i].alive
     /\ npcs[i].role = "impostor"
     /\ CooldownAtKillStep(i) = 0
     /\ npcs'[i].kill_cooldown = KillCooldownTime}

LivingCrew(ns, pl) ==
  Cardinality({i \in Living(ns) : ns[i].role = "crewmate"}) + (IF pl.alive THEN 1 ELSE 0)

LivingImpostors(ns) == Cardinality({i \in Living(ns) : ns[i].role = "impostor"})

Outnumbered(ns, pl) == LivingImpostors(ns) >= LivingCrew(ns, pl) /\ LivingImpostors(ns) > 0

ReportAction == \E ch \in {"r", "space"} : LoopInput(ch)

\* a corpse lies on the player's cell or on one of its four neighbours
PlayerByCorpse ==
  \E k \in 1 .. Len(corpses) :
    Manhattan(<<corpses[k].y, corpses[k].x>>, PlayerPos) <= 1

PlayerOption ==
  IF meeting_selection_idx = Len(meeting_candidates) THEN Skip
  ELSE meeting_candidates[meeting_selection_idx + 1]

RECURSIVE SumVotes(_, _)
SumVotes(v, S) ==
  IF S = {} THEN 0
  ELSE LET o == CHOOSE x \in S : TRUE IN v[o] + SumVotes(v, S \ {o})

VoteStep == tick'.kind = "vote"

CancelAction == \E ch \in {"q", "esc"} : LoopInput(ch)

C21_EmptyListIsSkip ==
  [][(VoteStep /\ meeting_candidates = <<>>) =>
       /\ tick'.votes = [o \in {Skip} |-> 1 + Cardinality(Living(npcs))]
       /\ tick'.choice = Skip
       /\ player'.alive = player.alive
       /\ \A i \in NpcIds : npcs'[i].alive = npcs[i].alive
       /\ corpses' = <<>>
       /\ ~meeting_mode'
       /\ running' = running
       /\ outcomes' = outcomes]_vars

\* a vote has been resolved on an empty candidate list
C21_Witness ==
  /\ tick.kind = "vote"
  /\ meeting_candidates = <<>>
  /\ tick.choice = Skip
  /\ corpses = <<>>
  /\ ~meeting_mode
  /\ running

Impostors(ns) == {i \in DOMAIN ns : ns[i].role = "impostor"}

RECURSIVE Component(_, _, _)
Component(m, frontier, seen) ==
  LET nxt == {c \in UNION {{Step(p, Dirs[k]) : k \in 1 .. 4} : p \in frontier} :
                c \in DOMAIN m /\ m[c] # "#"} \ seen
  IN  IF nxt = {} THEN seen ELSE Component(m, nxt, seen \cup nxt)

\* C23: on every generated map the player's start is walkable and every
\* non-wall cell, floor or task, is reachable from it by steps between
\* non-wall neighbours: the non-wall cells are one 4-connected component.
C23_MapConnected ==
  pc = "constructed" =>
    /\ PlayerPos \in Walkable(map)
    /\ Component(map, {PlayerPos}, {PlayerPos}) = Walkable(map)

\* a generated map with a task, in which a wall cell stands between two
\* non-wall cells of its row: the way from one to the other leads around it
C23_Witness ==
  /\ pc = "constructed"
  /\ DOMAIN tasks # {}
  /\ \E c \in DOMAIN map :
       /\ map[c] = "#"
       /\ <<c[1], c[2] - 1>> \in Walkable(map)
       /\ <<c[1], c[2] + 1>> \in Walkable(map)

MoveOrQuitAction ==
  \E ch \in {"KEY_UP", "KEY_DOWN", "KEY_LEFT", "KEY_RIGHT", "w", "s", "a", "d", "q"} :
    LoopInput(ch)

Prey == {e \in 0 .. Len(npcs) : IF e = 0 THEN player.alive
                                ELSE npcs[e].alive /\ npcs[e].role = "crewmate"}

\* t is the cell of a prey nearest to NPC i, or None when there is no prey
HuntsNearest(i, t) ==
  IF Prey = {} THEN t = None
  ELSE \E e \in Prey :
         /\ t = EntPos(npcs, player, e)
         /\ \A u \in Prey : Manhattan(EntPos(npcs, player, e), Pos(npcs[i])) <=
                              Manhattan(EntPos(npcs, player, u), Pos(npcs[i]))

\* a direct call of choose_target has returned
TargetStep == ~probe.called /\ probe'.called

\* C26: the target choose_target gives an impostor is the cell of a living
\* entity, the player or a crewmate, that is nearest to the impostor by
\* Manhattan distance, and no target when no such entity is alive; both for
\* a direct call and for the target an update plans with.
C26_ImpostorTarget ==
  [][/\ (TargetStep /\ npcs[probe'.npc].role = "impostor") =>
          HuntsNearest(probe'.npc, probe'.target)
     /\ UpdateStep =>
          \A i \in Eligible(clock + ReadLag) :
            npcs[i].role = "impostor" => HuntsNearest(i, npcs'[i].current_target)]_vars

\* a direct call for the impostor has returned the cell of the living
\* player, with the dead crewmate lying strictly nearer
C26_Witness ==
  /\ probe.called
  /\ npcs[probe.npc].role = "impostor"
  /\ player.alive
  /\ probe.target = PlayerPos
  /\ \E e \in 1 .. Len(npcs) :
       /\ npcs[e].role = "crewmate" /\ ~npcs[e].alive
       /\ Manhattan(Pos(npcs[e]), Pos(npcs[probe.npc])) <
            Manhattan(PlayerPos, Pos(npcs[probe.npc]))

\* after choose_target for crewmate i, called with assignment old at cell
\* pos and giving assignment new, with the registry cells reg not empty: new
\* is old when old is in the registry, and a registry cell nearest to pos
\* when it is not
AssignmentKept(old, new, pos, reg) ==
  /\ new \in reg
  /\ old \in reg => new = old
  /\ old \notin reg => \A u \in reg : Manhattan(new, pos) <= Manhattan(u, pos)

\* C27: after choose_target has run for a crewmate with a registry that is
\* not empty, the crewmate's assigned task is a registry cell: the one it
\* had, when that is still in the registry, and otherwise a registry cell at
\* the least Manhattan distance; this assignment is the target returned.
C27_CrewAssignment ==
  [][/\ (TargetStep /\ npcs[probe'.npc].role = "crewmate" /\ DOMAIN tasks # {}) =>
          /\ AssignmentKept(npcs[probe'.npc].assigned_task, npcs'[probe'.npc].assigned_task,
                            Pos(npcs[probe'.npc]), DOMAIN tasks)
          /\ probe'.target = npcs'[probe'.npc].assigned_task
     /\ (UpdateStep /\ DOMAIN tasks' # {}) =>
          \A i \in Eligible(clock + ReadLag) :
            npcs[i].role = "crewmate" =>
              /\ AssignmentKept(npcs[i].assigned_task, npcs'[i].assigned_task,
                                Pos(npcs[i]), DOMAIN tasks')
              /\ npcs'[i].current_target = npcs'[i].assigned_task]_vars

\* a direct call for a crewmate has left it assigned to the one task still
\* in the registry, while the task cell that has left the registry lies
\* strictly nearer to it
C27_Witness ==
  /\ probe.called
  /\ npcs[probe.npc].role = "crewmate"
  /\ DOMAIN tasks = {npcs[probe.npc].assigned_task}
  /\ \E c \in DOMAIN map :
       /\ map[c] = "T" /\ c \notin DOMAIN tasks
       /\ Manhattan(c, Pos(npcs[probe.npc])) <
            Manhattan(npcs[probe.npc].assigned_task, Pos(npcs[probe.npc]))

\* the path from the cell of NPC i to target t around the other entities,
\* as the planning of an update starting in this state computes it
FreshPath(i, t) == astar_path(map, Pos(npcs[i]), t, OccupiedBefore \ {t})

\* the intent formed from path p for NPC i: its first step, or the NPC's
\* own cell when the path is empty, when its only step leads back to the
\* last cell, or when the step is the player's cell
IntentFrom(i, p) ==
  IF p = <<>> THEN Pos(npcs[i])
  ELSE IF npcs[i].last_pos # None /\ p[1] = npcs[i].last_pos /\ Len(p) = 1 THEN Pos(npcs[i])
  ELSE IF p[1] = PlayerPos THEN Pos(npcs[i])
  ELSE p[1]

PlannedPath(i) ==
  IF Pos(npcs'[i]) # Pos(npcs[i]) THEN <<Pos(npcs'[i])>> \o npcs'[i].current_path
  ELSE npcs'[i].current_path

Snapshot == {Pos(npcs[i]) : i \in Living(npcs)} \cup {PlayerPos}

\* does NPC i, planning for target t against the occupied cells occ at time
\* now, compute a new path?
RepathsAgainst(i, t, occ, now) ==
  \/ t # npcs[i].current_target
  \/ npcs[i].current_path = <<>>
  \/ ~is_walkable(map, npcs[i].current_path[1][1], npcs[i].current_path[1][2])
  \/ (npcs[i].current_path[1] \in occ /\ npcs[i].current_path[1] # t)
  \/ now >= npcs[i].repath_after

OthersOn(i, t) ==
  \/ player.alive /\ PlayerPos = t
  \/ \E j \in NpcIds \ {i} : npcs[j].alive /\ Pos(npcs[j]) = t

\* between two iterations of the running game, living crewmate i is one
\* step from its assigned task t, which is in the registry and free, and
\* there is time left for the NPC to be planned
OneStepFromTask(i, t) ==
  /\ pc = "input" /\ running /\ ~meeting_mode
  /\ i \in NpcIds
  /\ npcs[i].alive /\ npcs[i].role = "crewmate"
  /\ npcs[i].assigned_task = t
  /\ t \in DOMAIN tasks
  /\ Manhattan(Pos(npcs[i]), t) = 1
  /\ ~OthersOn(i, t)
  /\ clock + LiveSlack <= Epoch + LiveHorizon

\* the conditions of the promise no longer hold: the NPC is dead or has
\* another assignment, the task has left the registry, another entity
\* stands on the task cell or has claimed it, or the game is over or in a
\* meeting
Disturbed(i, t) ==
  \/ ~npcs[i].alive
  \/ npcs[i].assigned_task # t
  \/ t \notin DOMAIN tasks
  \/ OthersOn(i, t)
  \/ \E j \in DOMAIN tick.intents : j # i /\ tick.intents[j] = t
  \/ ~running
  \/ meeting_mode

Constructed == pc = "input" /\ clock = Epoch /\ tick = NoTick /\ outcomes = <<>>

\* C33: right after Game.__init__ the player and the NPCs stand on pairwise
\* distinct cells: no two NPCs were given the same cell, and no NPC was
\* given the player's cell.
C33_DistinctSpawn ==
  Constructed =>
    /\ \A a, b \in NpcIds : a # b => Pos(npcs[a]) # Pos(npcs[b])
    /\ \A a \in NpcIds : Pos(npcs[a]) # PlayerPos

StaysOrSteps(p, q) == q = p \/ (Manhattan(p, q) = 1 /\ q \in Walkable(map))

\* the path of an NPC, when it has one, starts one step from the NPC and
\* ends at the NPC's current target
PathLeadsToTarget(npc) ==
  npc.current_path # <<>> =>
    /\ Manhattan(Pos(npc), npc.current_path[1]) = 1
    /\ npc.current_path[Len(npc.current_path)] = npc.current_target

====
